---- MODULE Spec2Model ----
(***************************************************************************)
(* A model of the rendering kernel of the ray tracer:                      *)
(*   - RayTracer::render            (src/src/render.rs), the frame loop,   *)
(*     the scoped worker pool and the sink mutex;                          *)
(*   - compute_color_for_ray        (src/src/render.rs), the recursive     *)
(*     shading pipeline;                                                   *)
(*   - AABB::new, expand, is_hit and get_first_hit (src/src/aabb.rs);     *)
(*   - compute_plane_hit and rotate_xyz (src/src/math_util.rs);            *)
(*   - RayTraceObjectQube           (src/src/object/qube.rs);              *)
(*   - RayTracerCameraPerspective   (src/src/camera/perspective.rs).       *)
(* Real numbers are modelled exactly: integers, and rationals <<n, d>>     *)
(* with d > 0.  f64 NaN is the distinguished value NaN.                    *)
(***************************************************************************)
EXTENDS Integers, Sequences, FiniteSets, TLC

VARIABLES
    \* ---- RayTracer::render --------------------------------------------
    width, height, frames,   \* out_params, fixed for the render
    pc,                      \* position of the scheduling thread in render
    frame,                   \* the loop variable `frame`
    sub,                     \* pixel tasks submitted so far in this frame
    queue,                   \* the pool's job channel (FIFO of task ids)
    task,                    \* state of each pixel task (the closure)
    mutex,                   \* holder of the sink mutex: a task id, MainThread, NoHolder
    poisoned,                \* a thread panicked while holding the sink mutex
    cameraFrame,             \* frame the camera was last initialised for
    objFrame,                \* per scene object: frame it was initialised for
    sceneIdx,                \* progress of RayTraceScene::init over the objects
    startCalled,             \* frames for which sink.start_frame was called
    finishCalled,            \* frames for which sink.finish_frame was called
    finished,                \* frames whose finish_frame returned Ok
    samples,                 \* per task: number of set_sample calls performed
    failOp, failFrame,       \* the first failed sink operation and its frame
    \* ---- AABB::is_hit --------------------------------------------------
    aabb,                    \* the box (self)
    aabbRay,                 \* the ray argument
    aabbHit,                 \* <<>> before the call, then <<the value returned>>
    \* ---- compute_color_for_ray ----------------------------------------
    scene,                   \* scene.get_objects(), in scene order
    maxDepth,                \* params.get_max_depth()
    shading,                 \* params.get_shading() is Some
    calls,                   \* the activations of compute_color_for_ray, outermost first
    sp,                      \* the running activation (0: the primary call has returned)
    result,                  \* <<>>, then <<the colour of the primary ray>>
    \* ---- AABB::new / expand, AABB::get_first_hit, the plane solver ------
    bx,                      \* the box under construction (self of expand)
    bxPts,                   \* the points given to AABB::new and expand so far
    firstRay,                \* the ray argument of get_first_hit
    first,                   \* <<>> before the call, then <<the value returned>>
    solveIn,                 \* the arguments of compute_plane_hit
    solveOut,                \* <<>> before the call, then <<the value returned>>
    \* ---- RayTraceObjectQube and RayTracerCameraPerspective -------------
    qube,                    \* the fields of the qube
    camera,                  \* the fields of the camera
    dirty,                   \* per object: a setter was called since the last init
    query                    \* the last query made and its outcome

renderVars == <<width, height, frames, pc, frame, sub, queue, task, mutex,
                poisoned, cameraFrame, objFrame, sceneIdx, startCalled,
                finishCalled, finished, samples, failOp, failFrame>>

aabbVars == <<aabb, aabbRay, aabbHit>>

shadeVars == <<scene, maxDepth, shading, calls, sp, result>>

geomVars == <<bx, bxPts, firstRay, first, solveIn, solveOut>>

lifeVars == <<qube, camera, dirty, query>>

vars == <<renderVars, aabbVars, shadeVars, geomVars, lifeVars>>

(***************************************************************************)
(* Bounds of the model.                                                    *)
(***************************************************************************)
MaxWidth == 2
MaxHeight == 2
MaxFrames == 2
NumObjects == 2

\* Pool::new(8)
NumWorkers == 8

\* Ray origins of the is_hit check lie in -MaxPos .. MaxPos on every axis,
\* direction components in -MaxDir .. MaxDir, box corners in 0 .. MaxBox.
MaxPos == 1
MaxDir == 1
MaxBox == 1

\* Scenes of the shading pipeline hold at most MaxObjects objects, and
\* max_depth is at most MaxDepth.
MaxObjects == 3
MaxDepth == 2

\* Holders of the sink mutex besides the pixel tasks.
NoHolder == <<>>

MainThread == <<-1, -1, -1>>

NoFrame == -1
Busy == -2

FrameIds == 0 .. (MaxFrames - 1)
TaskIds == FrameIds \X (0 .. (MaxWidth - 1)) \X (0 .. (MaxHeight - 1))
ObjectIds == 0 .. (NumObjects - 1)

\* The i-th pixel of `for y in 0..height { for x in 0..width {` .
PixelAt(i) == <<i % width, i \div width>>

\* The pixels of the output, [0,width) x [0,height).
Pixels == (0 .. (width - 1)) \X (0 .. (height - 1))

TaskOf(f, p) == <<f, p[1], p[2]>>

\* Tasks a pool worker is executing (compute_color, or the sink write).
Executing == {t \in TaskIds : task[t] \in {"running", "locked"}}

\* A task that panics takes its worker thread with it.
LiveWorkers == NumWorkers - Cardinality({t \in TaskIds : task[t] = "panicked"})

\* The variables of the other parts of the model stay as they are here.
AabbIdle == aabb = 0 /\ aabbRay = 0 /\ aabbHit = <<>>

ShadeIdle ==
    /\ scene = <<>> /\ maxDepth = 0 /\ shading = FALSE
    /\ calls = <<>> /\ sp = 0 /\ result = <<>>

GeomIdle ==
    /\ bx = <<>> /\ bxPts = {} /\ firstRay = <<>> /\ first = <<>>
    /\ solveIn = <<>> /\ solveOut = <<>>

LifeIdle == qube = <<>> /\ camera = <<>> /\ dirty = FALSE /\ query = <<>>

RenderInit ==
    /\ AabbIdle
    /\ ShadeIdle
    /\ GeomIdle
    /\ LifeIdle
    /\ width \in 0 .. MaxWidth
    /\ height \in 0 .. MaxHeight
    /\ frames \in 0 .. MaxFrames
    /\ pc = "sink_init"
    /\ frame = 0
    /\ sub = 0
    /\ queue = <<>>
    /\ task = [t \in TaskIds |-> "none"]
    /\ mutex = NoHolder
    /\ poisoned = FALSE
    /\ cameraFrame = NoFrame
    /\ objFrame = [o \in ObjectIds |-> NoFrame]
    /\ sceneIdx = 0
    /\ startCalled = {}
    /\ finishCalled = {}
    /\ finished = {}
    /\ samples = [t \in TaskIds |-> 0]
    /\ failOp = "none"
    /\ failFrame = NoFrame

\* The state of render while another part of the model is exercised.
RenderIdle ==
    /\ width = 0 /\ height = 0 /\ frames = 0
    /\ pc = "idle"
    /\ frame = 0
    /\ sub = 0
    /\ queue = <<>>
    /\ task = <<>>
    /\ mutex = NoHolder
    /\ poisoned = FALSE
    /\ cameraFrame = NoFrame
    /\ objFrame = <<>>
    /\ sceneIdx = 0
    /\ startCalled = {}
    /\ finishCalled = {}
    /\ finished = {}
    /\ samples = <<>>
    /\ failOp = "none"
    /\ failFrame = NoFrame

\* Record the first failed sink operation.
Fail(op, f) ==
    IF failOp = "none"
    THEN failOp' = op /\ failFrame' = f
    ELSE UNCHANGED <<failOp, failFrame>>

\* try!(e): Ok continues at `next`, Err returns Err from render.
Try(ok, next) == IF ok THEN next ELSE "err"

MutexNeverBlocks == TRUE

\* Mutex::lock blocks until the mutex is free.
MutexFree == mutex = NoHolder

\* try!(sink.init(width, height, frames))
SinkInit ==
    /\ UNCHANGED <<aabbVars, shadeVars, geomVars, lifeVars>>
    /\ pc = "sink_init"
    /\ \E ok \in BOOLEAN :
        /\ pc' = Try(ok, "loop")
        /\ IF ok THEN UNCHANGED <<failOp, failFrame>> ELSE Fail("init", NoFrame)
    /\ UNCHANGED <<width, height, frames, frame, sub, queue, task, mutex,
                   poisoned, cameraFrame, objFrame, sceneIdx, startCalled,
                   finishCalled, finished, samples>>

\* for frame in 0..out_params.get_frames() { ... } Ok(())
LoopHead ==
    /\ UNCHANGED <<aabbVars, shadeVars, geomVars, lifeVars>>
    /\ pc = "loop"
    /\ pc' = IF frame < frames THEN "start_frame" ELSE "ok"
    /\ UNCHANGED <<width, height, frames, frame, sub, queue, task, mutex,
                   poisoned, cameraFrame, objFrame, sceneIdx, startCalled,
                   finishCalled, finished, samples, failOp, failFrame>>

\* arc_sink.lock().unwrap() on the scheduling thread, before start_frame
\* (at = "start_frame") and before finish_frame (at = "finish_frame").
MainLock(at) ==
    /\ UNCHANGED <<aabbVars, shadeVars, geomVars, lifeVars>>
    /\ pc = at
    /\ MutexFree
    /\ IF poisoned
       THEN pc' = "panicked" /\ UNCHANGED mutex
       ELSE pc' = "in_" \o at /\ mutex' = MainThread
    /\ UNCHANGED <<width, height, frames, frame, sub, queue, task,
                   poisoned, cameraFrame, objFrame, sceneIdx, startCalled,
                   finishCalled, finished, samples, failOp, failFrame>>

\* try!(arc_sink.lock().unwrap().start_frame(frame)); the guard is dropped
\* at the end of the statement.
StartFrame ==
    /\ UNCHANGED <<aabbVars, shadeVars, geomVars, lifeVars>>
    /\ pc = "in_start_frame"
    /\ startCalled' = startCalled \cup {frame}
    /\ mutex' = NoHolder
    /\ \E ok \in BOOLEAN :
        /\ pc' = Try(ok, "camera_init")
        /\ IF ok THEN UNCHANGED <<failOp, failFrame>> ELSE Fail("start_frame", frame)
    /\ UNCHANGED <<width, height, frames, frame, sub, queue, task,
                   poisoned, cameraFrame, objFrame, sceneIdx,
                   finishCalled, finished, samples>>

\* Arc::get_mut(&mut arc_camera).unwrap().init(frame): the camera's working
\* data is being rewritten between the two steps.
CameraInitBegin ==
    /\ UNCHANGED <<aabbVars, shadeVars, geomVars, lifeVars>>
    /\ pc = "camera_init"
    /\ pc' = "in_camera_init"
    /\ cameraFrame' = Busy
    /\ UNCHANGED <<width, height, frames, frame, sub, queue, task, mutex,
                   poisoned, objFrame, sceneIdx, startCalled,
                   finishCalled, finished, samples, failOp, failFrame>>

CameraInitEnd ==
    /\ UNCHANGED <<aabbVars, shadeVars, geomVars, lifeVars>>
    /\ pc = "in_camera_init"
    /\ pc' = "scene_init"
    /\ cameraFrame' = frame
    /\ sceneIdx' = 0
    /\ UNCHANGED <<width, height, frames, frame, sub, queue, task, mutex,
                   poisoned, objFrame, startCalled,
                   finishCalled, finished, samples, failOp, failFrame>>

\* RayTraceScene::init: for obj in self.objects.iter_mut() { obj.init(frame) }
SceneInitDoneEarly == sceneIdx >= NumObjects - 1

\* The end of the loop over self.objects.
SceneInitDone == sceneIdx >= NumObjects

SceneInit ==
    /\ UNCHANGED <<aabbVars, shadeVars, geomVars, lifeVars>>
    /\ pc = "scene_init"
    /\ IF ~SceneInitDone
       THEN /\ objFrame' = [objFrame EXCEPT ![sceneIdx] = frame]
            /\ sceneIdx' = sceneIdx + 1
            /\ UNCHANGED <<pc, sub>>
       ELSE /\ pc' = "dispatch"
            /\ sub' = 0
            /\ UNCHANGED <<objFrame, sceneIdx>>
    /\ UNCHANGED <<width, height, frames, frame, queue, task, mutex,
                   poisoned, cameraFrame, startCalled,
                   finishCalled, finished, samples, failOp, failFrame>>

\* The closure of thread_pool.scoped: one scoped.execute per pixel.  The job
\* is sent on the pool's channel; with every worker thread dead the channel
\* is closed and the send panics.
Dispatch ==
    /\ UNCHANGED <<aabbVars, shadeVars, geomVars, lifeVars>>
    /\ pc = "dispatch"
    /\ IF sub < width * height
       THEN IF LiveWorkers = 0
            THEN pc' = "panicked" /\ UNCHANGED <<sub, queue, task>>
            ELSE /\ queue' = Append(queue, TaskOf(frame, PixelAt(sub)))
                 /\ task' = [task EXCEPT ![TaskOf(frame, PixelAt(sub))] = "queued"]
                 /\ sub' = sub + 1
                 /\ UNCHANGED pc
       ELSE pc' = "join" /\ UNCHANGED <<sub, queue, task>>
    /\ UNCHANGED <<width, height, frames, frame, mutex,
                   poisoned, cameraFrame, objFrame, sceneIdx, startCalled,
                   finishCalled, finished, samples, failOp, failFrame>>

\* The end of thread_pool.scoped: the scope joins every worker, which a live
\* worker answers only after the jobs queued before the join message.
JoinReadyNoWait == TRUE

JoinReadyIdleOnly == Executing = {}

JoinReady ==
    /\ Executing = {}
    /\ (queue = <<>> \/ LiveWorkers = 0)

\* The join panics when a worker thread has died, and returns otherwise.
Join ==
    /\ UNCHANGED <<aabbVars, shadeVars, geomVars, lifeVars>>
    /\ pc = "join"
    /\ JoinReady
    /\ pc' = IF LiveWorkers < NumWorkers THEN "panicked" ELSE "finish_frame"
    /\ UNCHANGED <<width, height, frames, frame, sub, queue, task, mutex,
                   poisoned, cameraFrame, objFrame, sceneIdx, startCalled,
                   finishCalled, finished, samples, failOp, failFrame>>

\* try!(arc_sink.lock().unwrap().finish_frame(frame)); then the next frame.
FinishFrame ==
    /\ UNCHANGED <<aabbVars, shadeVars, geomVars, lifeVars>>
    /\ pc = "in_finish_frame"
    /\ finishCalled' = finishCalled \cup {frame}
    /\ mutex' = NoHolder
    /\ \E ok \in BOOLEAN :
        /\ pc' = Try(ok, "loop")
        /\ IF ok
           THEN /\ finished' = finished \cup {frame}
                /\ frame' = frame + 1
                /\ UNCHANGED <<failOp, failFrame>>
           ELSE /\ Fail("finish_frame", frame)
                /\ UNCHANGED <<finished, frame>>
    /\ UNCHANGED <<width, height, frames, sub, queue, task,
                   poisoned, cameraFrame, objFrame, sceneIdx, startCalled,
                   samples>>

\* A pool worker receives the next job and runs the closure: compute_color
\* reads the camera (make_ray) and the scene.
TaskTake ==
    /\ UNCHANGED <<aabbVars, shadeVars, geomVars, lifeVars>>
    /\ queue # <<>>
    /\ Cardinality(Executing) < LiveWorkers
    /\ task' = [task EXCEPT ![Head(queue)] = "running"]
    /\ queue' = Tail(queue)
    /\ UNCHANGED <<width, height, frames, pc, frame, sub, mutex,
                   poisoned, cameraFrame, objFrame, sceneIdx, startCalled,
                   finishCalled, finished, samples, failOp, failFrame>>

\* scoped_sink.lock().unwrap(): a poisoned mutex makes unwrap panic.
TaskLock(t) ==
    /\ UNCHANGED <<aabbVars, shadeVars, geomVars, lifeVars>>
    /\ task[t] = "running"
    /\ MutexFree
    /\ IF poisoned
       THEN task' = [task EXCEPT ![t] = "panicked"] /\ UNCHANGED mutex
       ELSE task' = [task EXCEPT ![t] = "locked"] /\ mutex' = t
    /\ UNCHANGED <<width, height, frames, pc, frame, sub, queue,
                   poisoned, cameraFrame, objFrame, sceneIdx, startCalled,
                   finishCalled, finished, samples, failOp, failFrame>>

\* What the closure does with the result of set_sample:
\*   Ok(()) => { }, Err(err) => { panic!(err) }
SampleResultIgnored(ok) == "done"

SampleResult(ok) == IF ok THEN "done" ELSE "panicked"

\* set_sample(x, y, &color) under the guard; a panic here unwinds through
\* the guard and poisons the mutex.
TaskSetSample(t) ==
    /\ UNCHANGED <<aabbVars, shadeVars, geomVars, lifeVars>>
    /\ task[t] = "locked"
    /\ samples' = [samples EXCEPT ![t] = @ + 1]
    /\ mutex' = NoHolder
    /\ \E ok \in BOOLEAN :
        /\ task' = [task EXCEPT ![t] = SampleResult(ok)]
        /\ poisoned' = (poisoned \/ SampleResult(ok) = "panicked")
        /\ IF ok THEN UNCHANGED <<failOp, failFrame>> ELSE Fail("set_sample", t[1])
    /\ UNCHANGED <<width, height, frames, pc, frame, sub, queue,
                   cameraFrame, objFrame, sceneIdx, startCalled,
                   finishCalled, finished>>

RenderNext ==
    \/ SinkInit
    \/ LoopHead
    \/ MainLock("start_frame")
    \/ StartFrame
    \/ CameraInitBegin
    \/ CameraInitEnd
    \/ SceneInit
    \/ Dispatch
    \/ Join
    \/ MainLock("finish_frame")
    \/ FinishFrame
    \/ TaskTake
    \/ \E t \in TaskIds : TaskLock(t)
    \/ \E t \in TaskIds : TaskSetSample(t)

RenderSpec == RenderInit /\ [][RenderNext]_vars

(***************************************************************************)
(* Claims about RayTracer::render.                                         *)
(***************************************************************************)

\* Every pixel task of frame f that has not finished.
Unfinished(f) == {t \in TaskIds : t[1] = f /\ task[t] \in {"queued", "running", "locked"}}

\* The scheduling thread is inside camera.init or scene.init.
Initializing ==
    \/ pc = "in_camera_init"
    \/ pc = "scene_init"

\* C1: a pixel task of frame f executes only with camera.init(f) and
\* scene.init(f) completed, and camera.init and scene.init never run while a
\* pixel task of any frame is executing.
C1_InitBeforeDispatch ==
    /\ \A t \in Executing :
        /\ cameraFrame = t[1]
        /\ \A o \in ObjectIds : objFrame[o] = t[1]
    /\ Initializing => Executing = {}

\* C1 witness: a pixel task of the second frame is executing (the camera and
\* the scene have been initialised twice by then).
C1_Witness == \E t \in Executing : t[1] = 1 /\ cameraFrame = 1

\* C2 (state part): start_frame is called for 0, 1, ... in order, and nothing
\* of frame f + 1 (start_frame, set_sample, camera or scene init) exists before
\* finish_frame(f) has returned.
C2_Order ==
    /\ \E k \in 0 .. frames : startCalled = 0 .. (k - 1)
    /\ finishCalled \subseteq startCalled
    /\ finished \subseteq finishCalled
    /\ \A f \in FrameIds : \A g \in FrameIds :
        (/\ f < g
         /\ \/ g \in startCalled
            \/ cameraFrame = g
            \/ \E o \in ObjectIds : objFrame[o] = g
            \/ \E t \in TaskIds : t[1] = g /\ (samples[t] > 0 \/ task[t] # "none"))
            => f \in finished

\* C2 (step part): a set_sample of frame f happens only between
\* start_frame(f) and finish_frame(f), start_frame(f) only before any sample
\* of f, and finish_frame(f) only after start_frame(f).
C2_Step ==
    /\ \A t \in TaskIds :
        samples'[t] # samples[t] => (t[1] \in startCalled /\ t[1] \notin finishCalled
                                      /\ \A g \in startCalled : g <= t[1])
    /\ \A f \in startCalled' \ startCalled :
        \A t \in TaskIds : t[1] >= f => samples[t] = 0
    /\ \A f \in finishCalled' \ finishCalled : f \in startCalled

\* C2: frames are processed in increasing order and never interleaved.
C2_FramesSequential == []C2_Order /\ [][C2_Step]_vars

\* C2 witness: the second frame has been started and sampled after the first
\* was finished.
C2_Witness ==
    /\ 0 \in finished
    /\ 1 \in startCalled
    /\ \E t \in TaskIds : t[1] = 1 /\ samples[t] = 1

\* C3 (safety part): once finish_frame(f) has been called, every pixel of the
\* output has exactly one set_sample of frame f and every task of f is done.
C3_FrameComplete ==
    \A f \in finishCalled :
        /\ Unfinished(f) = {}
        /\ \A p \in Pixels : samples[TaskOf(f, p)] = 1 /\ task[TaskOf(f, p)] = "done"
        /\ \A t \in TaskIds : (t[1] = f /\ <<t[2], t[3]>> \notin Pixels) => samples[t] = 0

\* render has returned or panicked.
Terminated == pc \in {"ok", "err", "panicked"}

\* C3: finish_frame(f) comes after all of the frame's set_samples, one per
\* pixel; render terminates, and without a sink failure it returns Ok with
\* every frame finished.
C3_JoinThenFinish ==
    /\ []C3_FrameComplete
    /\ [](pc = "ok" => finished = 0 .. (frames - 1))
    /\ []((Terminated /\ failOp = "none") => pc = "ok")
    /\ <>Terminated

\* C3 witness: finish_frame of the last frame has been called on a full
\* 2 x 2 output.
C3_Witness ==
    /\ width = 2 /\ height = 2 /\ frames = 2
    /\ 1 \in finishCalled
    /\ pc = "ok"

\* The threads that are inside a sink operation.
InSink ==
    {t \in TaskIds : task[t] = "locked"}
        \cup (IF pc \in {"in_start_frame", "in_finish_frame"} THEN {MainThread} ELSE {})

\* C4: at most one thread is inside a sink operation (set_sample,
\* start_frame, finish_frame), and it holds the sink mutex.
C4_SinkExclusive ==
    /\ Cardinality(InSink) <= 1
    /\ \A h \in InSink : mutex = h

\* C4 witness: one task is inside set_sample while two others have computed
\* their colour and wait for the mutex.
C4_Witness ==
    /\ \E t \in TaskIds : task[t] = "locked" /\ mutex = t
    /\ Cardinality({t \in TaskIds : task[t] = "running"}) >= 2

\* C5: after a failed sink operation render never returns Ok, nothing of a
\* later frame is performed, and a failed start_frame(f) or set_sample of f
\* is never followed by finish_frame(f).
C5_SinkFailureFatal ==
    failOp # "none" =>
        /\ pc # "ok"
        /\ \A g \in FrameIds :
            g > failFrame =>
                /\ g \notin startCalled
                /\ cameraFrame # g
                /\ \A o \in ObjectIds : objFrame[o] # g
                /\ \A t \in TaskIds : t[1] = g => samples[t] = 0
        /\ (failOp \in {"start_frame", "set_sample"} => failFrame \notin finishCalled)
        /\ (failOp = "init" => startCalled = {})

\* C5 witness: a set_sample of the first frame failed and render has ended
\* by panicking, with another task stopped by the poisoned mutex.
C5_Witness ==
    /\ failOp = "set_sample" /\ failFrame = 0
    /\ pc = "panicked"
    /\ Cardinality({t \in TaskIds : task[t] = "panicked"}) >= 2

RenderLive == RenderSpec /\ WF_vars(RenderNext)

(***************************************************************************)
(* Numbers.  An f64 is a rational <<n, d>> with d > 0, or NaN.             *)
(***************************************************************************)
NaN == <<0, 0>>

IsNaN(a) == a[2] = 0

Zero == <<0, 1>>

\* a / b for integers a and b # 0.
Div(a, b) == IF b < 0 THEN <<-a, -b>> ELSE <<a, b>>

\* The comparisons of f64: every comparison with NaN is false.
Lt(a, b) == ~IsNaN(a) /\ ~IsNaN(b) /\ a[1] * b[2] < b[1] * a[2]

Gt(a, b) == Lt(b, a)

Le(a, b) == ~IsNaN(a) /\ ~IsNaN(b) /\ a[1] * b[2] <= b[1] * a[2]

Abs(i) == IF i < 0 THEN -i ELSE i

Min(i, j) == IF i < j THEN i ELSE j

Max(i, j) == IF i > j THEN i ELSE j

(***************************************************************************)
(* AABB (src/src/aabb.rs).  Vectors are <<x, y, z>> of integers; a ray is  *)
(* [pos, dir].                                                             *)
(***************************************************************************)
Axes == 1 .. 3

\* AABB::new: the componentwise minimum and maximum of the two corners.
AABBNew(x1, x2) ==
    [start |-> [i \in Axes |-> Min(x1[i], x2[i])],
     end |-> [i \in Axes |-> Max(x1[i], x2[i])]]

\* `if r_dir[dim].abs() < 1.0e-10`: an integer component is below the
\* threshold exactly when it is zero.
Orthogonal(d) == Abs(d) < 1

\* project_points_onto_ray: per axis <<start, end>>, the parameters at which
\* the ray crosses the two planes of the slab, smaller first; NaN twice for a
\* ray orthogonal to the axis.
ProjectPointsOntoRay(ray, box) ==
    [dim \in Axes |->
        IF Orthogonal(ray.dir[dim])
        THEN <<NaN, NaN>>
        ELSE LET start == Div(box.start[dim] - ray.pos[dim], ray.dir[dim])
                 end == Div(box.end[dim] - ray.pos[dim], ray.dir[dim])
             IN IF Lt(end, start) THEN <<end, start>> ELSE <<start, end>>]

BehindStartOnly(s, e) == Lt(s, Zero)

\* `x_start < 0.0 && x_end < 0.0`: the slab lies behind the ray.
Behind(s, e) == Lt(s, Zero) /\ Lt(e, Zero)

\* `(y_start < x_start && y_end < x_start) || (y_start > x_end && y_end > x_end)`
NoOverlap(a, b) ==
    \/ Lt(b[1], a[1]) /\ Lt(b[2], a[1])
    \/ Gt(b[1], a[2]) /\ Gt(b[2], a[2])

\* The origin is outside the slab of a degenerate axis.
OutsideSlab(box, ray, dim) ==
    ray.pos[dim] < box.start[dim] \/ ray.pos[dim] > box.end[dim]

\* AABB::is_hit.  check_xy, check_xz and check_yz are true exactly when
\* neither axis of the pair is degenerate.
IsHit(box, ray) ==
    LET pr == ProjectPointsOntoRay(ray, box)
        degenerate(dim) == IsNaN(pr[dim][1])
        rejected(dim) ==
            IF degenerate(dim)
            THEN OutsideSlab(box, ray, dim)
            ELSE Behind(pr[dim][1], pr[dim][2])
        check(a, b) == ~degenerate(a) /\ ~degenerate(b)
    IN /\ ~rejected(1)
       /\ ~rejected(2)
       /\ ~rejected(3)
       /\ ~(check(1, 2) /\ NoOverlap(pr[1], pr[2]))
       /\ ~(check(1, 3) /\ NoOverlap(pr[1], pr[3]))
       /\ ~(check(2, 3) /\ NoOverlap(pr[2], pr[3]))

Coords(lo, hi) == [Axes -> lo .. hi]

\* The rays is_hit is called with.
AabbRays == [pos : Coords(-MaxPos, MaxPos), dir : Coords(-MaxDir, MaxDir)]

\* A box built by AABB::new from two corners.
AabbInit ==
    /\ RenderIdle
    /\ ShadeIdle
    /\ GeomIdle
    /\ LifeIdle
    /\ \E x1 \in Coords(0, MaxBox), x2 \in Coords(0, MaxBox) : aabb = AABBNew(x1, x2)
    /\ aabbRay = 0
    /\ aabbHit = <<>>

\* aabb.is_hit(ray)
IsHitCall ==
    /\ UNCHANGED <<renderVars, shadeVars, geomVars, lifeVars>>
    /\ aabbHit = <<>>
    /\ \E ray \in AabbRays :
        /\ aabbRay' = ray
        /\ aabbHit' = <<IsHit(aabb, ray)>>
    /\ UNCHANGED aabb

AabbNext == IsHitCall

AabbSpec == AabbInit /\ [][AabbNext]_vars

(***************************************************************************)
(* Claims about AABB::is_hit.                                              *)
(***************************************************************************)

\* The parameters at which the ray can enter the box: 0, and its crossings
\* of the six planes.
Crossings(box, ray) ==
    {Zero} \cup {Div(box.start[i] - ray.pos[i], ray.dir[i]) : i \in {j \in Axes : ray.dir[j] # 0}}
           \cup {Div(box.end[i] - ray.pos[i], ray.dir[i]) : i \in {j \in Axes : ray.dir[j] # 0}}

\* The point pos + t * dir lies inside the box (t = <<n, d>>).
PointInBox(box, ray, t) ==
    \A i \in Axes :
        /\ box.start[i] * t[2] <= ray.pos[i] * t[2] + t[1] * ray.dir[i]
        /\ ray.pos[i] * t[2] + t[1] * ray.dir[i] <= box.end[i] * t[2]

\* Some point of the ray, at a parameter t >= 0, lies inside the box.  The
\* parameters of such points form a closed interval whose lower end is 0 or a
\* crossing.
RayMeetsBox(box, ray) ==
    \E t \in Crossings(box, ray) : t[1] >= 0 /\ PointInBox(box, ray, t)

\* C10: is_hit returns true exactly for the rays of which a point at t >= 0
\* lies inside the box.
C10_IsHitExact == aabbHit # <<>> => (aabbHit[1] <=> RayMeetsBox(aabb, aabbRay))

\* C10 witnesses: a ray from outside that passes through the box diagonally
\* and is reported, and (below) a ray that misses and is rejected by the
\* pairwise overlap test alone.
C10_Witness ==
    /\ aabbHit = <<TRUE>>
    /\ \E i \in Axes : aabbRay.pos[i] < aabb.start[i]
    /\ \A i \in Axes : aabbRay.dir[i] # 0 /\ aabb.start[i] < aabb.end[i]

C10_WitnessMiss ==
    /\ aabbHit = <<FALSE>>
    /\ \A i \in Axes : aabbRay.dir[i] # 0
    /\ LET pr == ProjectPointsOntoRay(aabbRay, aabb)
       IN \A i \in Axes : ~Behind(pr[i][1], pr[i][2])

(***************************************************************************)
(* AABB::new followed by AABB::expand (src/src/aabb.rs).                   *)
(***************************************************************************)

\* A box is built from at most MaxPoints different points, each with its
\* coordinates in 0 .. MaxBox.
MaxPoints == 4

BoxPoints == Coords(0, MaxBox)

ExpandEndByMin(box, x) ==
    [start |-> [i \in Axes |-> Min(box.start[i], x[i])],
     end |-> [i \in Axes |-> Min(box.end[i], x[i])]]

\* AABB::expand: start takes the componentwise minimum with x, end the
\* componentwise maximum.
AABBExpand(box, x) ==
    [start |-> [i \in Axes |-> Min(box.start[i], x[i])],
     end |-> [i \in Axes |-> Max(box.end[i], x[i])]]

\* AABB::new(p1, p2)
BoxInit ==
    /\ RenderIdle
    /\ AabbIdle
    /\ ShadeIdle
    /\ LifeIdle
    /\ \E p1 \in BoxPoints, p2 \in BoxPoints :
        /\ bx = AABBNew(p1, p2)
        /\ bxPts = {p1, p2}
    /\ firstRay = <<>> /\ first = <<>> /\ solveIn = <<>> /\ solveOut = <<>>

\* self.expand(x)
Expand ==
    /\ UNCHANGED <<renderVars, aabbVars, shadeVars, lifeVars>>
    /\ \E x \in BoxPoints :
        /\ Cardinality(bxPts \cup {x}) <= MaxPoints
        /\ bx' = AABBExpand(bx, x)
        /\ bxPts' = bxPts \cup {x}
    /\ UNCHANGED <<firstRay, first, solveIn, solveOut>>

BoxNext == Expand

BoxSpec == BoxInit /\ [][BoxNext]_vars

\* The point p lies in the box.
Contains(box, p) == \A i \in Axes : box.start[i] <= p[i] /\ p[i] <= box.end[i]

\* C11 (state part): start[i] <= end[i] on every axis, and the box contains
\* both corners given to new and every point given to expand.
C11_Ordered ==
    /\ \A i \in Axes : bx.start[i] <= bx.end[i]
    /\ \A p \in bxPts : Contains(bx, p)

\* C11 (step part): an expand leaves start non-increasing and end
\* non-decreasing on every axis.
C11_NoShrink ==
    \A i \in Axes : bx'.start[i] <= bx.start[i] /\ bx'.end[i] >= bx.end[i]

\* C11: after AABB::new and any sequence of expand calls the box is ordered,
\* contains every point it was given, and no expand shrinks it.
C11_BoxInvariant == []C11_Ordered /\ [][C11_NoShrink]_vars

\* C11 witness: a box given its corners in the wrong order and then grown by
\* two expands, to a box that is larger than the one new built.
C11_Witness ==
    /\ Cardinality(bxPts) = MaxPoints
    /\ \E p1 \in bxPts, p2 \in bxPts :
        /\ p1[1] > p2[1]
        /\ bx # AABBNew(p1, p2)
        /\ \E i \in Axes : bx.end[i] - bx.start[i] > Max(p1[i], p2[i]) - Min(p1[i], p2[i])

(***************************************************************************)
(* Arithmetic of f64 on rationals: NaN is absorbing, and the results are   *)
(* kept in lowest terms with a positive denominator.                       *)
(***************************************************************************)
RECURSIVE GCD(_, _)
GCD(a, b) == IF b = 0 THEN a ELSE GCD(b, a % b)

RNorm(n, d) ==
    IF d = 0 THEN NaN
    ELSE LET g == GCD(Abs(n), Abs(d))
             sg == IF d < 0 THEN -1 ELSE 1
         IN <<(sg * n) \div g, (sg * d) \div g>>

\* An integer as a rational.
R(x) == <<x, 1>>

\* A ray of integer direction with its direction as rationals.
RatRay(ray) == [pos |-> ray.pos, dir |-> [i \in Axes |-> R(ray.dir[i])]]

RAdd(a, b) == IF IsNaN(a) \/ IsNaN(b) THEN NaN ELSE RNorm(a[1] * b[2] + b[1] * a[2], a[2] * b[2])

RSub(a, b) == IF IsNaN(a) \/ IsNaN(b) THEN NaN ELSE RNorm(a[1] * b[2] - b[1] * a[2], a[2] * b[2])

RMul(a, b) == IF IsNaN(a) \/ IsNaN(b) THEN NaN ELSE RNorm(a[1] * b[1], a[2] * b[2])

\* a / b; the divisions of the solver have b # 0.
RDiv(a, b) == IF IsNaN(a) \/ IsNaN(b) THEN NaN ELSE RNorm(a[1] * b[2], a[2] * b[1])

RNeg(a) == IF IsNaN(a) THEN NaN ELSE <<-a[1], a[2]>>

RAbs(a) == IF IsNaN(a) THEN NaN ELSE <<Abs(a[1]), a[2]>>

(***************************************************************************)
(* The Gauss-Jordan plane solver: compute_plane_hit                        *)
(* (src/src/math_util.rs); get_plane_hit of the qube holds the same        *)
(* statements.  mat is <<row 0, row 1, row 2>>, each row four rationals.   *)
(* The entries of the model are rationals of small denominator, so a       *)
(* magnitude is below THRESHOLD = 1e-10 exactly when the entry is zero.    *)
(***************************************************************************)

\* `x.abs() < THRESHOLD`
Small(x) == ~IsNaN(x) /\ x[1] = 0

\* `x.abs() > THRESHOLD`
Large(x) == ~IsNaN(x) /\ x[1] # 0

\* vec4_sub(a, vec4_scale(b, k))
RowSubScaled(a, b, k) == [j \in 1 .. 4 |-> RSub(a[j], RMul(b[j], k))]

\* The matrix [dir | -vec1 | -vec2 | center - pos].  The direction of the
\* ray is a vector of rationals, the other vectors are of integers.
PlaneMatrix(ray, center, vec1, vec2) ==
    [i \in Axes |->
        <<ray.dir[i], RNeg(R(vec1[i])), RNeg(R(vec2[i])),
          RSub(R(center[i]), R(ray.pos[i]))>>]

\* The pivot of column 0: <<>> for `return None`, <<mat>> otherwise.
PivotColumn0(m) ==
    IF Small(m[1][1])
    THEN IF Small(m[2][1])
         THEN IF Small(m[3][1]) THEN <<>> ELSE <<<<m[3], m[2], m[1]>>>>
         ELSE LET r2 == IF Large(m[3][1])
                        THEN RowSubScaled(m[3], m[2], RDiv(m[3][1], m[2][1]))
                        ELSE m[3]
              IN <<<<m[2], m[1], r2>>>>
    ELSE LET r1 == IF Large(m[2][1])
                   THEN RowSubScaled(m[2], m[1], RDiv(m[2][1], m[1][1]))
                   ELSE m[2]
             r2 == IF Large(m[3][1])
                   THEN RowSubScaled(m[3], m[1], RDiv(m[3][1], m[1][1]))
                   ELSE m[3]
         IN <<<<m[1], r1, r2>>>>

\* The pivot of column 1.
PivotColumn1(m) ==
    IF Small(m[2][2])
    THEN IF Small(m[3][2]) THEN <<>> ELSE <<<<m[1], m[3], m[2]>>>>
    ELSE LET r2 == IF Large(m[3][2])
                   THEN RowSubScaled(m[3], m[2], RDiv(m[3][2], m[2][2]))
                   ELSE m[3]
         IN <<<<m[1], m[2], r2>>>>

BackSubstituteStale(m) ==
    LET r0a == RowSubScaled(m[1], m[2], RDiv(m[1][2], m[2][2]))
        r0 == RowSubScaled(r0a, m[3], RDiv(m[1][3], m[3][3]))
        r1 == RowSubScaled(m[2], m[3], RDiv(m[2][3], m[3][3]))
    IN <<r0, r1, m[3]>>

\* The back substitution: rows 0 and 1 are cleared of columns 1 and 2.
BackSubstitute(m) ==
    LET r0a == RowSubScaled(m[1], m[2], RDiv(m[1][2], m[2][2]))
        r0 == RowSubScaled(r0a, m[3], RDiv(r0a[3], m[3][3]))
        r1 == RowSubScaled(m[2], m[3], RDiv(m[2][3], m[3][3]))
    IN <<r0, r1, m[3]>>

\* The matrix in diagonal form: <<>> for `return None`, <<mat>> otherwise.
GaussJordan(m) ==
    LET a == PivotColumn0(m)
    IN IF a = <<>> THEN <<>>
       ELSE LET b == PivotColumn1(a[1])
            IN IF b = <<>> THEN <<>>
               ELSE IF Small(b[1][3][3]) THEN <<>>
               ELSE <<BackSubstitute(b[1])>>

\* compute_plane_hit: <<>> for None, <<<<t, u, v>>>> for Some((t, u, v)).
ComputePlaneHit(ray, center, vec1, vec2) ==
    LET d == GaussJordan(PlaneMatrix(ray, center, vec1, vec2))
    IN IF d = <<>> THEN <<>>
       ELSE LET m == d[1]
            IN <<<<RDiv(m[1][4], m[1][1]), RDiv(m[2][4], m[2][2]), RDiv(m[3][4], m[3][3])>>>>

\* The centers of the patches given to the solver; the ray starts at the
\* origin.
SolveCenters == {<<1, 2, 3>>, <<0, 0, 1>>}

\* Directions of the rays given to the solver.
SolveDirs == Coords(-MaxDir, MaxDir)

\* The basis vectors of a patch: their components lie in [-1, 1], as those
\* of the rotated unit vectors do.
SolveBasis == Coords(-1, 1)

SolveInit ==
    /\ RenderIdle
    /\ AabbIdle
    /\ ShadeIdle
    /\ GeomIdle
    /\ LifeIdle

\* compute_plane_hit(ray, center, vec1, vec2)
ComputePlaneHitCall ==
    /\ UNCHANGED <<renderVars, aabbVars, shadeVars, lifeVars>>
    /\ solveOut = <<>>
    /\ \E dir \in SolveDirs, vec1 \in SolveBasis, vec2 \in SolveBasis,
          center \in SolveCenters :
        LET ray == RatRay([pos |-> <<0, 0, 0>>, dir |-> dir]) IN
        /\ solveIn' = [ray |-> ray, dir |-> dir, center |-> center,
                       vec1 |-> vec1, vec2 |-> vec2]
        /\ solveOut' = <<ComputePlaneHit(ray, center, vec1, vec2)>>
    /\ UNCHANGED <<bx, bxPts, firstRay, first>>

SolveNext == ComputePlaneHitCall

SolveSpec == SolveInit /\ [][SolveNext]_vars

\* The determinant of the matrix of columns a, b, c.
Det(a, b, c) ==
    a[1] * (b[2] * c[3] - b[3] * c[2])
    - b[1] * (a[2] * c[3] - a[3] * c[2])
    + c[1] * (a[2] * b[3] - a[3] * b[2])

\* origin + t * dir = center + u * vec1 + v * vec2, on every axis.
OnRayAndPlane(in, tuv) ==
    \A i \in Axes :
        RAdd(R(in.ray.pos[i]), RMul(tuv[1], R(in.dir[i])))
            = RAdd(R(in.center[i]),
                   RAdd(RMul(tuv[2], R(in.vec1[i])), RMul(tuv[3], R(in.vec2[i]))))

One == <<1, 1>>

Half == <<1, 2>>

\* A colour channel holds a multiple of 1 / ColorOne; ColorOne is 1.0.
ColorOne == 2 ^ 8

Channels == 1 .. 4

Color(r, g, b, a) == <<r, g, b, a>>

\* RayTraceParams::new: background_color is transparent, indirect_color white.
BackgroundColor == Color(0, 0, 0, 0)

IndirectColor == Color(ColorOne, ColorOne, ColorOne, ColorOne)

\* mix_color(material, reflected, reflectance):
\*   material * (1 - reflectance) + reflected * reflectance
MixColor(material, reflected, reflectance) ==
    [i \in Channels |->
        (material[i] * (reflectance[2] - reflectance[1]) + reflected[i] * reflectance[1])
            \div reflectance[2]]

(***************************************************************************)
(* RayTraceObjectQube (src/src/object/qube.rs).  Lengths are integers, in  *)
(* units of 1 / LengthUnit; the sizes of the model are multiples of two    *)
(* whole lengths, so that 0.5 * size and 0.71 * size are integers.         *)
(* Rotations are whole quarter turns about each axis, of which the sine    *)
(* and the cosine are 0, 1 or -1.                                          *)
(***************************************************************************)

\* 1.0 as a length.
LengthUnit == 100

\* `1.42 * 0.5`, in hundredths.
AabbFactor == 71

\* sin and cos of q quarter turns.
Sin4(q) == CASE q % 4 = 0 -> 0 [] q % 4 = 1 -> 1 [] q % 4 = 2 -> 0 [] q % 4 = 3 -> -1

Cos4(q) == CASE q % 4 = 0 -> 1 [] q % 4 = 1 -> 0 [] q % 4 = 2 -> -1 [] q % 4 = 3 -> 0

Mat3Id == <<<<1, 0, 0>>, <<0, 1, 0>>, <<0, 0, 1>>>>

\* row_mat3_mul(a, b): the matrix product a b.
RowMat3Mul(a, b) ==
    [i \in Axes |-> [j \in Axes |-> a[i][1] * b[1][j] + a[i][2] * b[2][j] + a[i][3] * b[3][j]]]

\* row_mat3_transform(m, v): the product m v.
RowMat3Transform(m, v) ==
    [i \in Axes |-> m[i][1] * v[1] + m[i][2] * v[2] + m[i][3] * v[3]]

RotateZ(q) == <<<<Cos4(q), Sin4(q), 0>>, <<-Sin4(q), Cos4(q), 0>>, <<0, 0, 1>>>>

RotateX(q) == <<<<1, 0, 0>>, <<0, Cos4(q), Sin4(q)>>, <<0, -Sin4(q), Cos4(q)>>>>

RotateY(q) == <<<<Cos4(q), 0, -Sin4(q)>>, <<0, 1, 0>>, <<Sin4(q), 0, Cos4(q)>>>>

\* rotate_xyz(angle): about z, then about x, then about y, each only for an
\* angle that is not 0.0.
RotateXyz(angle) ==
    LET rz == IF angle[3] # 0 THEN RotateZ(angle[3]) ELSE Mat3Id
        rx == IF angle[1] # 0 THEN RowMat3Mul(RotateX(angle[1]), rz) ELSE rz
    IN IF angle[2] # 0 THEN RowMat3Mul(RotateY(angle[2]), rx) ELSE rx

Vec3Add(a, b) == [i \in Axes |-> a[i] + b[i]]

Vec3Sub(a, b) == [i \in Axes |-> a[i] - b[i]]

Vec3Neg(a) == [i \in Axes |-> -a[i]]

\* gen_aabb(center, size): the box center -+ size * 0.71; the rotation is
\* not an argument.
GenAabb(center, size) ==
    LET dir == [i \in Axes |-> (size[i] * AabbFactor) \div LengthUnit]
    IN AABBNew(Vec3Sub(center, dir), Vec3Add(center, dir))

\* RayTraceObjectQube::new: no rotation, no working data.
QubeNew(center, size, material) ==
    [material |-> material, size |-> size, center |-> center,
     rotation |-> <<0, 0, 0>>, data |-> <<>>]

\* The working data init computes: the rotated unit vectors, the centers of
\* the six faces and the bounding box.
QubeWorkingData(q) ==
    LET rot == RotateXyz(q.rotation)
        vec == [i \in Axes |-> RowMat3Transform(rot, [j \in Axes |-> IF i = j THEN 1 ELSE 0])]
        scaled == [i \in Axes |-> [j \in Axes |-> vec[i][j] * (q.size[i] \div 2)]]
    IN [plane_vec |-> vec,
        plane_center |-> <<Vec3Add(q.center, scaled[1]), Vec3Sub(q.center, scaled[1]),
                           Vec3Add(q.center, scaled[2]), Vec3Sub(q.center, scaled[2]),
                           Vec3Add(q.center, scaled[3]), Vec3Sub(q.center, scaled[3])>>,
        aabb |-> GenAabb(q.center, q.size)]

\* get_plane_hit: <<>> for None, <<hit>> for Some(hit).  The solver is that
\* of compute_plane_hit; u must lie within size[v1] * 0.5 and v within
\* size[v2] * 0.5, and the hit is dropped `if distance <= 0.0`.
GetPlaneHit(ray, center, size, normal_vec, vec, v1, v2, material) ==
    LET d == GaussJordan(PlaneMatrix(ray, center, vec[v1], vec[v2]))
    IN IF d = <<>> THEN <<>>
       ELSE LET mat == d[1]
                distance == RDiv(mat[1][4], mat[1][1])
            IN IF Gt(RAbs(RDiv(mat[2][4], mat[2][2])), RDiv(R(size[v1]), R(2))) THEN <<>>
               ELSE IF Gt(RAbs(RDiv(mat[3][4], mat[3][3])), RDiv(R(size[v2]), R(2))) THEN <<>>
               ELSE IF Le(distance, Zero) THEN <<>>
               ELSE <<[distance |-> distance,
                       position |-> [i \in Axes |-> RAdd(R(ray.pos[i]), RMul(ray.dir[i], distance))],
                       normal |-> normal_vec,
                       material |-> material]>>

\* f64::MAX: larger than every distance of the model.
F64Max == <<2 ^ 20, 1>>

\* The six calls of next_hit: the axis of the face's normal and its sign,
\* the two axes of the patch, and the colour of the material built for the
\* face.
QubeFaces ==
    <<[axis |-> 1, sign |-> 1, v1 |-> 2, v2 |-> 3, color |-> Color(ColorOne, 0, 0, ColorOne)],
      [axis |-> 1, sign |-> -1, v1 |-> 2, v2 |-> 3, color |-> Color(0, ColorOne, 0, ColorOne)],
      [axis |-> 2, sign |-> 1, v1 |-> 1, v2 |-> 3, color |-> Color(0, 0, ColorOne, ColorOne)],
      [axis |-> 2, sign |-> -1, v1 |-> 1, v2 |-> 3, color |-> Color(ColorOne, ColorOne, 0, ColorOne)],
      [axis |-> 3, sign |-> 1, v1 |-> 1, v2 |-> 2, color |-> Color(ColorOne, 0, ColorOne, ColorOne)],
      [axis |-> 3, sign |-> -1, v1 |-> 1, v2 |-> 2, color |-> Color(0, ColorOne, ColorOne, ColorOne)]>>

\* RayTraceMaterial::new(color): the colour, and no reflectance.
MaterialNew(color) == [color |-> color, reflectance |-> Zero]

\* The hit of face k of the qube q with working data.
FaceHit(q, k, ray) ==
    LET data == q.data[1]
        f == QubeFaces[k]
    IN GetPlaneHit(ray, data.plane_center[k], q.size,
                   IF f.sign = 1 THEN data.plane_vec[f.axis] ELSE Vec3Neg(data.plane_vec[f.axis]),
                   data.plane_vec, f.v1, f.v2, MaterialNew(f.color))

\* next_hit after the faces 1 .. k: <<hit_distance, hit_ret>>.  The hit of
\* the first face is taken as it is, a later one `if hit.get_distance() <
\* hit_distance`.
RECURSIVE QubeHitUpTo(_, _, _)
QubeHitUpTo(q, k, ray) ==
    IF k = 0 THEN <<F64Max, <<>>>>
    ELSE LET acc == QubeHitUpTo(q, k - 1, ray)
             hit == FaceHit(q, k, ray)
         IN IF hit = <<>> THEN acc
            ELSE IF k = 1 \/ Lt(hit[1].distance, acc[1]) THEN <<hit[1].distance, hit>>
            ELSE acc

\* RayTraceObjectQube::next_hit on a qube with working data: <<>> for None,
\* <<hit>> for Some(hit).
QubeNextHit(q, ray) == QubeHitUpTo(q, 6, ray)[2]

(***************************************************************************)
(* RayTracerCameraPerspective (src/src/camera/perspective.rs), without     *)
(* animations.  The rays of the model are those of the pixel at the centre *)
(* of the screen, whose offset on the image plane is zero.                 *)
(***************************************************************************)

\* RayTracerCameraPerspective::new_with: at the origin, no rotation, no
\* working data.
CameraNew(distance) ==
    [position |-> <<0, 0, 0>>, rotation |-> <<0, 0, 0>>, distance |-> distance,
     data |-> <<>>]

\* The working data init computes: the rotated view direction (0, 0, -1)
\* and the offset of the image plane, plane_normal * distance.
CameraWorkingData(c) ==
    LET plane_normal == RowMat3Transform(RotateXyz(c.rotation), <<0, 0, -1>>)
    IN [plane_normal |-> plane_normal,
        plane_offset |-> [i \in Axes |-> plane_normal[i] * c.distance]]

\* vec3_normalized(v) = v * (1 / |v|).  The vectors normalized in the model
\* have at most one component that is not zero, so |v| is the sum of the
\* magnitudes; the zero vector gives 0 * inf = NaN in every component.
Vec3Normalized(v) ==
    LET len == Abs(v[1]) + Abs(v[2]) + Abs(v[3])
    IN [i \in Axes |-> RNorm(v[i], len)]

\* make_ray(x, y) on a camera with working data, for x = screen_width / 2
\* and y = screen_height / 2.
CameraMakeRay(c) ==
    [pos |-> c.position, dir |-> Vec3Normalized(c.data[1].plane_offset)]

(***************************************************************************)
(* The life of one object, a qube or a camera: construction, then init and *)
(* setters in any order, then one query.  A query does not change the      *)
(* object; query records the object it was made on and its outcome: a      *)
(* panic, or the value returned.  dirty is history: a setter was called    *)
(* after the last init.                                                    *)
(***************************************************************************)
QubeCenters == {<<0, 0, 0>>, <<LengthUnit, 0, 0>>}

QubeSizes == {<<2 * LengthUnit, 2 * LengthUnit, 2 * LengthUnit>>,
              <<2 * LengthUnit, 2 * LengthUnit, 4 * LengthUnit>>}

\* Quarter turns about x, y and z.
Rotations == {<<0, 0, 0>>, <<1, 0, 0>>, <<0, 1, 0>>, <<0, 0, 1>>}

CameraPositions == {<<0, 0, 0>>, <<0, 0, 5 * LengthUnit>>}

CameraDistances == {0, LengthUnit}

\* The rays next_hit is called with: rays of integer direction, and the
\* rays make_ray returns for a camera of distance 0, of direction NaN.
QubeRayPositions ==
    {<<0, 0, 0>>, <<0, 0, 500>>, <<0, 180, 500>>, <<100, 100, 500>>, <<300, 0, 0>>}

QubeRays ==
    {RatRay(r) : r \in [pos : QubeRayPositions, dir : Coords(-1, 1)]}
    \cup [pos : QubeRayPositions, dir : {<<NaN, NaN, NaN>>}]

LifeInit ==
    /\ RenderIdle
    /\ AabbIdle
    /\ ShadeIdle
    /\ GeomIdle
    /\ \/ /\ \E center \in QubeCenters, size \in QubeSizes :
               qube = QubeNew(center, size, MaterialNew(Color(ColorOne, 0, 0, ColorOne)))
          /\ camera = <<>>
       \/ /\ \E distance \in CameraDistances : camera = CameraNew(distance)
          /\ qube = <<>>
    /\ dirty = FALSE
    /\ query = <<>>

\* The object is a qube: the camera has no size.
IsQube(o) == "size" \in DOMAIN o

Outcome(op, self, ray, panic, out) ==
    [op |-> op, self |-> self, ray |-> ray, panic |-> panic, out |-> out]

\* qube.set_rotation(rotation): the working data stays.
QubeSetRotation ==
    /\ UNCHANGED <<renderVars, aabbVars, shadeVars, geomVars>>
    /\ qube # <<>> /\ query = <<>>
    /\ \E rotation \in Rotations : qube' = [qube EXCEPT !.rotation = rotation]
    /\ dirty' = TRUE
    /\ UNCHANGED <<camera, query>>

\* qube.set_position(position): the working data stays.
QubeSetPosition ==
    /\ UNCHANGED <<renderVars, aabbVars, shadeVars, geomVars>>
    /\ qube # <<>> /\ query = <<>>
    /\ \E position \in QubeCenters : qube' = [qube EXCEPT !.center = position]
    /\ dirty' = TRUE
    /\ UNCHANGED <<camera, query>>

\* qube.init(frame)
QubeInit ==
    /\ UNCHANGED <<renderVars, aabbVars, shadeVars, geomVars>>
    /\ qube # <<>> /\ query = <<>>
    /\ qube' = [qube EXCEPT !.data = <<QubeWorkingData(qube)>>]
    /\ dirty' = FALSE
    /\ UNCHANGED <<camera, query>>

\* qube.get_aabb(): panics without working data.
GetAabbCall ==
    /\ UNCHANGED <<renderVars, aabbVars, shadeVars, geomVars>>
    /\ qube # <<>> /\ query = <<>>
    /\ query' = IF qube.data = <<>>
                THEN Outcome("get_aabb", qube, <<>>, TRUE, <<>>)
                ELSE Outcome("get_aabb", qube, <<>>, FALSE, <<qube.data[1].aabb>>)
    /\ UNCHANGED <<qube, camera, dirty>>

\* qube.next_hit(ray): panics without working data.
NextHitCall ==
    /\ UNCHANGED <<renderVars, aabbVars, shadeVars, geomVars>>
    /\ qube # <<>> /\ query = <<>>
    /\ \E ray \in QubeRays :
        query' = IF qube.data = <<>>
                 THEN Outcome("next_hit", qube, ray, TRUE, <<>>)
                 ELSE Outcome("next_hit", qube, ray, FALSE, <<QubeNextHit(qube, ray)>>)
    /\ UNCHANGED <<qube, camera, dirty>>

\* camera.set_position(position): the working data is dropped.
CameraSetPosition ==
    /\ UNCHANGED <<renderVars, aabbVars, shadeVars, geomVars>>
    /\ camera # <<>> /\ query = <<>>
    /\ \E position \in CameraPositions :
        camera' = [camera EXCEPT !.position = position, !.data = <<>>]
    /\ dirty' = TRUE
    /\ UNCHANGED <<qube, query>>

\* camera.set_rotation(rotation): the working data is dropped.
CameraSetRotation ==
    /\ UNCHANGED <<renderVars, aabbVars, shadeVars, geomVars>>
    /\ camera # <<>> /\ query = <<>>
    /\ \E rotation \in Rotations :
        camera' = [camera EXCEPT !.rotation = rotation, !.data = <<>>]
    /\ dirty' = TRUE
    /\ UNCHANGED <<qube, query>>

\* camera.init(frame)
CameraInit ==
    /\ UNCHANGED <<renderVars, aabbVars, shadeVars, geomVars>>
    /\ camera # <<>> /\ query = <<>>
    /\ camera' = [camera EXCEPT !.data = <<CameraWorkingData(camera)>>]
    /\ dirty' = FALSE
    /\ UNCHANGED <<qube, query>>

\* camera.make_ray(x, y): panics without working data.
MakeRayCall ==
    /\ UNCHANGED <<renderVars, aabbVars, shadeVars, geomVars>>
    /\ camera # <<>> /\ query = <<>>
    /\ query' = IF camera.data = <<>>
                THEN Outcome("make_ray", camera, <<>>, TRUE, <<>>)
                ELSE Outcome("make_ray", camera, <<>>, FALSE, <<CameraMakeRay(camera)>>)
    /\ UNCHANGED <<qube, camera, dirty>>

\* camera.get_direction(): plane_normal, or [0.0, 0.0, 0.0] without working
\* data.
GetDirectionCall ==
    /\ UNCHANGED <<renderVars, aabbVars, shadeVars, geomVars>>
    /\ camera # <<>> /\ query = <<>>
    /\ query' = IF camera.data = <<>>
                THEN Outcome("get_direction", camera, <<>>, FALSE, <<<<0, 0, 0>>>>)
                ELSE Outcome("get_direction", camera, <<>>, FALSE, <<camera.data[1].plane_normal>>)
    /\ UNCHANGED <<qube, camera, dirty>>

LifeNext ==
    \/ QubeSetRotation
    \/ QubeSetPosition
    \/ QubeInit
    \/ GetAabbCall
    \/ NextHitCall
    \/ CameraSetPosition
    \/ CameraSetRotation
    \/ CameraInit
    \/ MakeRayCall
    \/ GetDirectionCall

LifeSpec == LifeInit /\ [][LifeNext]_vars

(***************************************************************************)
(* The objects of a scene.  compute_color_for_ray reaches them through the *)
(* RayTraceObject capability only (get_aabb, next_hit); the scenes here are *)
(* built from planes orthogonal to the z axis at z = o.z, of reflectance   *)
(* o.refl, with no bounding box, with one that holds the part of the plane *)
(* around the z axis ("tight"), or one that lies off the z axis ("off"),   *)
(* and from objects whose next_hit reports a hit at distance NaN (o.nan).  *)
(* Lengths are in units of 1e-10.                                          *)
(***************************************************************************)
PlaneZs == {0, 4}

ObjectKinds ==
    {[z |-> z, refl |-> k[1], box |-> k[2], nan |-> FALSE] :
        z \in PlaneZs,
        k \in {<<Zero, "none">>, <<One, "tight">>, <<Half, "none">>, <<Zero, "off">>}}
    \cup {[z |-> 0, refl |-> Zero, box |-> "none", nan |-> TRUE]}

\* The colour of the i-th object of the scene: red, green, blue+green, ...
ObjColor(i) ==
    Color((i % 2) * ColorOne, ((i \div 2) % 2) * ColorOne, ((i \div 4) % 2) * ColorOne,
          ColorOne)

\* object.get_aabb(): <<>> for None, <<box>> for Some(box).
ObjGetAabb(o) ==
    CASE o.box = "none" -> <<>>
      [] o.box = "tight" -> <<AABBNew(<<-1, -1, o.z>>, <<1, 1, o.z>>)>>
      [] o.box = "off" -> <<AABBNew(<<2, 2, o.z>>, <<3, 3, o.z>>)>>

\* object.next_hit(ray): <<>> for None, <<hit>> for Some(hit).  A hit is
\* RayTraceRayHit::new(distance, position, normal, material); obj records
\* the object it comes from.
ObjNextHit(o, i, ray) ==
    LET hit(t) == [distance |-> t,
                   normal |-> <<0, 0, 1>>,
                   material |-> [color |-> ObjColor(i), reflectance |-> o.refl],
                   obj |-> i]
    IN IF o.nan THEN <<hit(NaN)>>
       ELSE IF ray.dir[3] = 0 THEN <<>>
       ELSE LET t == Div(o.z - ray.pos[3], ray.dir[3])
            IN IF Le(t, Zero) THEN <<>> ELSE <<hit(t)>>

\* shading_fn.apply(ray, &hit, scene, params): the material's colour at half
\* intensity.
ShadingApply(ray, hit) ==
    [i \in Channels |-> IF i = 4 THEN ColorOne ELSE hit.material.color[i] \div 2]

(***************************************************************************)
(* compute_color_for_ray (src/src/render.rs).                              *)
(***************************************************************************)

\* The 1e-10 of compute_reflected_ray, in length units.
ReflectOffset == 1

\* compute_reflected_ray(n, ray, distance): r = d - 2 (d . n) n, from the
\* point of the ray at distance - 1e-10.
ComputeReflectedRay(n, ray, distance) ==
    LET d == ray.dir
        dot == d[1] * n[1] + d[2] * n[2] + d[3] * n[3]
        t == <<distance[1] - ReflectOffset * distance[2], distance[2]>>
    IN [pos |-> [i \in Axes |-> ray.pos[i] + (d[i] * t[1]) \div t[2]],
        dir |-> [i \in Axes |-> d[i] - n[i] * (2 * dot)]]

\* The comparator of ray_hits.sort_by: partial_cmp of the distances, with
\* None (a NaN) taken as Ordering::Equal.  IsLess is "compares Less".
IsLess(a, b) == Lt(a.distance, b.distance)

\* slice::sort_by on a short slice is an insertion sort from the right:
\* insert_head moves v[0] behind the run of elements of the sorted tail
\* that compare Less than it.
InsertHead(v) ==
    LET tail == Tail(v)
        run == {n \in 0 .. Len(tail) : \A k \in 1 .. n : IsLess(tail[k], Head(v))}
        n == CHOOSE m \in run : \A k \in run : k <= m
    IN SubSeq(tail, 1, n) \o <<Head(v)>> \o SubSeq(tail, n + 1, Len(tail))

RECURSIVE SortBy(_)
SortBy(v) == IF Len(v) <= 1 THEN v ELSE InsertHead(<<Head(v)>> \o SortBy(Tail(v)))

\* for object in scene.get_objects().iter(): skip the object when its box
\* rejects the ray, push the hit of next_hit otherwise.
RECURSIVE CollectFrom(_, _)
CollectFrom(i, ray) ==
    IF i > Len(scene) THEN <<>>
    ELSE LET box == ObjGetAabb(scene[i])
         IN IF box # <<>> /\ ~IsHit(box[1], ray)
            THEN CollectFrom(i + 1, ray)
            ELSE ObjNextHit(scene[i], i, ray) \o CollectFrom(i + 1, ray)

DepthExceededLate(depth) == depth > maxDepth + 1

\* `if depth > params.get_max_depth()`
DepthExceeded(depth) == depth > maxDepth

SameDepth(depth) == depth

\* The depth of the recursive call: `depth + 1`.
NextDepth(depth) == depth + 1

MissColorBackground(depth) == BackgroundColor

\* `if ray_hits.is_empty()`: background for the primary ray, indirect else.
MissColor(depth) == IF depth = 0 THEN BackgroundColor ELSE IndirectColor

\* An activation of compute_color_for_ray(ray, scene, params, depth).
Activation(ray, depth) ==
    [ray |-> ray, depth |-> depth, st |-> "call", cut |-> FALSE, tested |-> 0,
     hits |-> <<>>, hit |-> <<>>, color |-> <<>>, ret |-> <<>>]

\* The rays compute_color traces at depth 0.
PrimaryRays == [pos : {<<0, 0, 2>>, <<0, 0, 4>>, <<0, 0, 6>>}, dir : {<<0, 0, 1>>, <<0, 0, -1>>}]

Scenes == UNION {[1 .. n -> ObjectKinds] : n \in 0 .. MaxObjects}

\* Before compute_color is entered.
ShadeInit ==
    /\ RenderIdle
    /\ AabbIdle
    /\ ShadeIdle
    /\ GeomIdle
    /\ LifeIdle

\* compute_color: the camera makes the primary ray and
\*   compute_color_for_ray(&ray, scene, params, 0)
\* is entered, for some scene, parameters and optional shading function.
ComputeColor ==
    /\ UNCHANGED <<renderVars, aabbVars, geomVars, lifeVars>>
    /\ sp = 0
    /\ calls = <<>>
    /\ scene' \in Scenes
    /\ maxDepth' \in 0 .. MaxDepth
    /\ shading' \in BOOLEAN
    /\ \E ray \in PrimaryRays : calls' = <<Activation(ray, 0)>>
    /\ sp' = 1
    /\ UNCHANGED result

\* `return v` of the running activation.
Return(c, v) ==
    /\ calls' = [calls EXCEPT ![sp] = [c EXCEPT !.st = "returned", !.ret = <<v>>]]
    /\ sp' = sp - 1
    /\ result' = IF sp = 1 THEN <<v>> ELSE result

\* The body of compute_color_for_ray up to its return or its recursive call.
ShadeCall ==
    /\ UNCHANGED <<renderVars, aabbVars, geomVars, lifeVars>>
    /\ sp >= 1
    /\ calls[sp].st = "call"
    /\ \E c \in {calls[sp]} :
       IF DepthExceeded(c.depth)
       THEN Return([c EXCEPT !.cut = TRUE], IndirectColor)
       ELSE \E hits \in {CollectFrom(1, c.ray)} :
            \E c1 \in {[c EXCEPT !.tested = Len(scene), !.hits = hits]} :
               IF hits = <<>>
               THEN Return(c1, MissColor(c.depth))
               ELSE \E hit \in {SortBy(hits)[1]} :
                    \E material_color \in {IF shading THEN ShadingApply(c.ray, hit)
                                                      ELSE hit.material.color} :
                    \E c2 \in {[c1 EXCEPT !.hit = <<hit>>, !.color = <<material_color>>]} :
                       IF hit.material.reflectance # Zero
                       THEN \E reflected \in {ComputeReflectedRay(hit.normal, c.ray, hit.distance)} :
                            /\ calls' = [calls EXCEPT ![sp] = [c2 EXCEPT !.st = "await"]]
                                            \o <<Activation(reflected, NextDepth(c.depth))>>
                            /\ sp' = sp + 1
                            /\ UNCHANGED result
                       ELSE Return(c2, material_color)
    /\ UNCHANGED <<scene, maxDepth, shading>>

\* The recursive call has returned reflected_color:
\*   return mix_color(&material_color, &reflected_color, reflectance)
ShadeResume ==
    /\ UNCHANGED <<renderVars, aabbVars, geomVars, lifeVars>>
    /\ sp >= 1
    /\ calls[sp].st = "await"
    /\ LET c == calls[sp] IN
       Return(c, MixColor(c.color[1], calls[sp + 1].ret[1], c.hit[1].material.reflectance))
    /\ UNCHANGED <<scene, maxDepth, shading>>

ShadeNext == ComputeColor \/ ShadeCall \/ ShadeResume

ShadeSpec == ShadeInit /\ [][ShadeNext]_vars

\* The thread evaluating the pixel keeps running; every step of ShadeNext
\* changes sp.
ShadeLive == ShadeSpec /\ WF_sp(ShadeNext)

(***************************************************************************)
(* Claims about compute_color_for_ray.                                     *)
(***************************************************************************)

\* The primary call has returned.
Returned == sp = 0 /\ result # <<>>

\* C6 (state part): the i-th activation runs at depth i - 1 (the primary call
\* at depth 0, each recursive call one deeper than its caller); an activation
\* with depth > max_depth tests no object, makes no call and returns
\* indirect_color; there are at most max_depth + 1 reflections.
C6_DepthBound ==
    /\ \A i \in 1 .. Len(calls) : calls[i].depth = i - 1
    /\ \A i \in 1 .. Len(calls) :
        /\ calls[i].cut <=> (calls[i].depth > maxDepth /\ calls[i].st = "returned")
        /\ calls[i].depth > maxDepth =>
            /\ calls[i].tested = 0
            /\ calls[i].hits = <<>>
            /\ i = Len(calls)
            /\ calls[i].st = "returned" => calls[i].ret = <<IndirectColor>>
    /\ Len(calls) - 1 <= maxDepth + 1

\* C6: compute_color_for_ray terminates, within the depth bound.
C6_Terminates == []C6_DepthBound /\ <>Returned

\* C6 witness: between two facing surfaces of reflectance 1 the ray is
\* reflected max_depth + 1 times, from one surface to the other and back,
\* before the cutoff returns.
C6_Witness ==
    /\ Returned
    /\ maxDepth = MaxDepth
    /\ Len(calls) = maxDepth + 2
    /\ calls[Len(calls)].cut
    /\ \A i \in 1 .. (maxDepth + 1) :
        /\ calls[i].hit # <<>>
        /\ calls[i].hit[1].material.reflectance = One
    /\ \A i \in 1 .. maxDepth :
        scene[calls[i].hit[1].obj].z # scene[calls[i + 1].hit[1].obj].z

\* C7: with max_depth = 0, a primary ray whose nearest hit has reflectance 1
\* resolves to indirect_color.
C7_DepthZeroMirror ==
    (/\ Returned
     /\ maxDepth = 0
     /\ calls[1].hit # <<>>
     /\ calls[1].hit[1].material.reflectance = One)
        => result = <<IndirectColor>>

\* C7 witness: such a ray, with a shading function configured and an object
\* in the path of the reflected ray.
C7_Witness ==
    /\ Returned
    /\ maxDepth = 0
    /\ shading
    /\ calls[1].hit # <<>>
    /\ calls[1].hit[1].material.reflectance = One
    /\ CollectFrom(1, calls[2].ray) # <<>>
    /\ result = <<IndirectColor>>

\* C8: an activation that collects no hit returns background_color at depth
\* 0 and indirect_color at depth 1 .. max_depth, and no activation of a
\* reflected ray that collects no hit returns background_color.
C8_MissColor ==
    \A i \in 1 .. Len(calls) :
        calls[i].st = "returned" =>
            /\ (calls[i].hits = <<>> /\ ~calls[i].cut) =>
                    calls[i].ret = <<IF calls[i].depth = 0 THEN BackgroundColor
                                                            ELSE IndirectColor>>
            /\ (calls[i].depth >= 1 /\ calls[i].hits = <<>>) =>
                    calls[i].ret # <<BackgroundColor>>

\* C8 witness: a reflected ray within the depth limit meets no object, in a
\* scene of two objects, and resolves to indirect_color.
C8_Witness ==
    \E i \in 2 .. Len(calls) :
        /\ calls[i].st = "returned"
        /\ calls[i].depth <= maxDepth
        /\ calls[i].tested >= 2
        /\ calls[i].hits = <<>>
        /\ calls[i].ret = <<IndirectColor>>

\* C9: the hit used for shading is a nearest one (no collected hit is
\* nearer), and a collected hit of an earlier object is passed over only when
\* it is farther.
C9_NearestHit ==
    \A i \in 1 .. Len(calls) :
        calls[i].hit # <<>> =>
            LET used == calls[i].hit[1]
                hits == calls[i].hits
            IN \A k \in 1 .. Len(hits) :
                /\ ~Lt(hits[k].distance, used.distance)
                /\ hits[k].obj < used.obj => Lt(used.distance, hits[k].distance)

(***************************************************************************)
(* AABB::get_first_hit (src/src/aabb.rs).                                  *)
(***************************************************************************)

\* f64::min: the other operand when one is NaN.
RMin(a, b) == IF IsNaN(a) THEN b ELSE IF IsNaN(b) THEN a ELSE IF Lt(b, a) THEN b ELSE a

\* The distance an axis contributes to ray_min: start `if start >= 0.0`,
\* end otherwise.
AxisDistance(s, e) == IF Le(Zero, s) THEN s ELSE e

\* AABB::get_first_hit: <<>> for None, <<ray_min>> for Some(ray_min).  The
\* rejections are those of is_hit; ray_min starts at f64::MAX and takes the
\* minimum of the distances of the axes the ray is not orthogonal to.
GetFirstHit(box, ray) ==
    LET pr == ProjectPointsOntoRay(ray, box)
        degenerate(dim) == IsNaN(pr[dim][1])
        rejected(dim) ==
            IF degenerate(dim)
            THEN OutsideSlab(box, ray, dim)
            ELSE Behind(pr[dim][1], pr[dim][2])
        check(a, b) == ~degenerate(a) /\ ~degenerate(b)
        min_x == IF degenerate(1) THEN F64Max ELSE AxisDistance(pr[1][1], pr[1][2])
        min_y == IF degenerate(2) THEN min_x ELSE RMin(AxisDistance(pr[2][1], pr[2][2]), min_x)
        min_z == IF degenerate(3) THEN min_y ELSE RMin(AxisDistance(pr[3][1], pr[3][2]), min_y)
    IN IF \/ rejected(1)
          \/ rejected(2)
          \/ rejected(3)
          \/ check(1, 2) /\ NoOverlap(pr[1], pr[2])
          \/ check(1, 3) /\ NoOverlap(pr[1], pr[3])
          \/ check(2, 3) /\ NoOverlap(pr[2], pr[3])
       THEN <<>>
       ELSE <<min_z>>

\* aabb.get_first_hit(ray)
GetFirstHitCall ==
    /\ UNCHANGED <<renderVars, aabbVars, shadeVars, lifeVars>>
    /\ first = <<>>
    /\ \E ray \in AabbRays :
        /\ firstRay' = ray
        /\ first' = <<GetFirstHit(aabb, ray)>>
    /\ UNCHANGED <<bx, bxPts, solveIn, solveOut>>

FirstHitNext == GetFirstHitCall

\* The box is built by AABB::new, as for is_hit.
FirstHitSpec == AabbInit /\ [][FirstHitNext]_vars

(***************************************************************************)
(* A scene of one qube, traced by compute_color_for_ray.  The qube is      *)
(* built and set up, moved into the scene and initialised for the frame    *)
(* (RayTraceScene::init), and a primary ray is traced.  Lengths are in     *)
(* units of 1 / LengthUnit; the materials next_hit builds do not reflect.  *)
(***************************************************************************)
TraceMaterials ==
    {MaterialNew(Color(ColorOne, 0, 0, ColorOne)), MaterialNew(Color(0, 0, ColorOne, ColorOne))}

TraceRays ==
    [pos : {<<0, 0, 0>>, <<0, 0, 500>>, <<0, 180, 500>>},
     dir : {<<0, 0, -1>>, <<0, 0, 1>>, <<1, 0, 0>>, <<0, -1, -1>>}]

TraceInit ==
    /\ RenderIdle
    /\ AabbIdle
    /\ ShadeIdle
    /\ GeomIdle
    /\ \E center \in QubeCenters, size \in QubeSizes, material \in TraceMaterials :
        qube = QubeNew(center, size, material)
    /\ camera = <<>>
    /\ dirty = FALSE
    /\ query = <<>>

\* The scene takes the qube, whose init has run after its last setter, and
\*   compute_color_for_ray(&ray, scene, params, 0)
\* is entered.
TraceQube ==
    /\ UNCHANGED <<renderVars, aabbVars, geomVars>>
    /\ sp = 0
    /\ calls = <<>>
    /\ qube # <<>>
    /\ qube.data # <<>>
    /\ ~dirty
    /\ scene' = <<qube>>
    /\ qube' = <<>>
    /\ maxDepth' \in 0 .. MaxDepth
    /\ shading' \in BOOLEAN
    /\ \E ray \in TraceRays : calls' = <<Activation(ray, 0)>>
    /\ sp' = 1
    /\ UNCHANGED <<result, camera, dirty, query>>

\* The body of compute_color_for_ray on the scene of one qube: the qube is
\* skipped when its box rejects the ray, and the one hit there can be is
\* the first of the sorted hits.
TraceCall ==
    /\ UNCHANGED <<renderVars, aabbVars, geomVars, lifeVars>>
    /\ sp >= 1
    /\ calls[sp].st = "call"
    /\ \E c \in {calls[sp]} :
       IF DepthExceeded(c.depth)
       THEN Return([c EXCEPT !.cut = TRUE], IndirectColor)
       ELSE \E object \in {scene[1]} :
            \E ray \in {RatRay(c.ray)} :
            \E hits \in {IF ~IsHit(object.data[1].aabb, c.ray)
                          THEN <<>>
                          ELSE QubeNextHit(object, ray)} :
            \E c1 \in {[c EXCEPT !.tested = Len(scene), !.hits = hits]} :
               IF hits = <<>>
               THEN Return(c1, MissColor(c.depth))
               ELSE \E hit \in {hits[1]} :
                    \E material_color \in {IF shading THEN ShadingApply(c.ray, hit)
                                                      ELSE hit.material.color} :
                    \E c2 \in {[c1 EXCEPT !.hit = <<hit>>, !.color = <<material_color>>]} :
                       IF hit.material.reflectance # Zero
                       THEN \E reflected \in {ComputeReflectedRay(hit.normal, c.ray, hit.distance)} :
                            /\ calls' = [calls EXCEPT ![sp] = [c2 EXCEPT !.st = "await"]]
                                            \o <<Activation(reflected, NextDepth(c.depth))>>
                            /\ sp' = sp + 1
                            /\ UNCHANGED result
                       ELSE Return(c2, material_color)
    /\ UNCHANGED <<scene, maxDepth, shading>>

TraceNext ==
    \/ QubeSetRotation
    \/ QubeSetPosition
    \/ QubeInit
    \/ TraceQube
    \/ TraceCall

TraceSpec == TraceInit /\ [][TraceNext]_vars

(***************************************************************************)
(* Claims about the qube and the camera.                                   *)
(***************************************************************************)

\* A next_hit that returned, on a qube with working data.
NextHitReturned == query # <<>> /\ query.op = "next_hit" /\ ~query.panic

\* The solved (t, u, v) of face k meets the conditions of a hit: u and v
\* within the half extents of the patch, edges included, and t > 0.
ValidFaceHit(q, k, ray) ==
    LET data == q.data[1]
        f == QubeFaces[k]
        s == ComputePlaneHit(ray, data.plane_center[k], data.plane_vec[f.v1],
                             data.plane_vec[f.v2])
    IN /\ s # <<>>
       /\ Le(RAbs(s[1][2]), RDiv(R(q.size[f.v1]), R(2)))
       /\ Le(RAbs(s[1][3]), RDiv(R(q.size[f.v2]), R(2)))
       /\ Gt(s[1][1], Zero)

\* The distance t of the solved (t, u, v) of face k.
FaceDistance(q, k, ray) ==
    LET data == q.data[1]
        f == QubeFaces[k]
    IN ComputePlaneHit(ray, data.plane_center[k], data.plane_vec[f.v1],
                       data.plane_vec[f.v2])[1][1]

\* C13 (faces): get_plane_hit reports a hit exactly when the solved (t, u, v)
\* has |u| <= size[v1] / 2, |v| <= size[v2] / 2 and t > 0.
C13_FaceHitExact ==
    NextHitReturned =>
        \A k \in 1 .. 6 :
            FaceHit(query.self, k, query.ray) # <<>> <=> ValidFaceHit(query.self, k, query.ray)

\* C13: every hit next_hit returns has a distance > 0 that is the smallest
\* among the valid hits of the six faces, and next_hit returns a hit when a
\* face has a valid hit.
C13_ForwardNearest ==
    NextHitReturned =>
        IF query.out[1] = <<>>
        THEN \A k \in 1 .. 6 : ~ValidFaceHit(query.self, k, query.ray)
        ELSE /\ Gt(query.out[1][1].distance, Zero)
             /\ \E k \in 1 .. 6 :
                    /\ ValidFaceHit(query.self, k, query.ray)
                    /\ FaceDistance(query.self, k, query.ray) = query.out[1][1].distance
             /\ \A k \in 1 .. 6 :
                    ValidFaceHit(query.self, k, query.ray) =>
                        Le(query.out[1][1].distance, FaceDistance(query.self, k, query.ray))

\* The ray of the query has a direction of real numbers.
RealRay == \A i \in Axes : ~IsNaN(query.ray.dir[i])

\* For rays of real direction the faces report exactly the valid hits and
\* next_hit returns the nearest of them.
C13_RealRays ==
    (NextHitReturned /\ RealRay) =>
        /\ \A k \in 1 .. 6 :
            FaceHit(query.self, k, query.ray) # <<>> <=> ValidFaceHit(query.self, k, query.ray)
        /\ IF query.out[1] = <<>>
           THEN \A k \in 1 .. 6 : ~ValidFaceHit(query.self, k, query.ray)
           ELSE /\ Gt(query.out[1][1].distance, Zero)
                /\ \A k \in 1 .. 6 :
                    ValidFaceHit(query.self, k, query.ray) =>
                        Le(query.out[1][1].distance, FaceDistance(query.self, k, query.ray))

\* A hit on the edge of a patch, from a ray of real direction.
C13_EdgeHit ==
    /\ NextHitReturned /\ RealRay
    /\ query.out[1] # <<>>
    /\ \E k \in 1 .. 6 :
        /\ ValidFaceHit(query.self, k, query.ray)
        /\ LET data == query.self.data[1]
               f == QubeFaces[k]
               s == ComputePlaneHit(query.ray, data.plane_center[k],
                                    data.plane_vec[f.v1], data.plane_vec[f.v2])
           IN RAbs(s[1][2]) = RDiv(R(query.self.size[f.v1]), R(2))

\* C14: a query on an object without working data (get_aabb, next_hit,
\* make_ray, get_direction) panics and returns no value.
C14_FailsLoudly ==
    (query # <<>> /\ query.self.data = <<>>) => (query.panic /\ query.out = <<>>)

\* get_aabb, next_hit and make_ray panic without working data.
C14_OthersPanic ==
    (query # <<>> /\ query.self.data = <<>> /\ query.op # "get_direction") =>
        (query.panic /\ query.out = <<>>)

\* get_direction has returned on a camera that was never initialised.
C14_DirectionReturned ==
    /\ query # <<>>
    /\ query.op = "get_direction"
    /\ query.self = CameraNew(LengthUnit)
    /\ ~query.panic
    /\ query.out = <<<<0, 0, 0>>>>

\* The scene of C15 has been traced: one unrotated qube of size (2, 2, 2) at
\* the origin, max_depth 0, no shading function, the ray from (0, 0, 5) in
\* direction (0, 0, -1).
C15_Traced ==
    /\ result # <<>>
    /\ Len(scene) = 1
    /\ scene[1].center = <<0, 0, 0>>
    /\ scene[1].size = <<2 * LengthUnit, 2 * LengthUnit, 2 * LengthUnit>>
    /\ scene[1].rotation = <<0, 0, 0>>
    /\ maxDepth = 0
    /\ ~shading
    /\ calls[1].ray = [pos |-> <<0, 0, 5 * LengthUnit>>, dir |-> <<0, 0, -1>>]

\* The ray passes the bounding box of the qube and its nearest hit is the
\* +z face, of normal (0, 0, 1), at distance 4.0.
C15_HitsTopFace ==
    /\ IsHit(scene[1].data[1].aabb, calls[1].ray)
    /\ calls[1].hit # <<>>
    /\ calls[1].hit[1].normal = <<0, 0, 1>>
    /\ calls[1].hit[1].distance = R(4 * LengthUnit)

\* C15: for that scene the ray passes the bounding box, hits the +z face at
\* distance 4.0, and compute_color_for_ray returns the colour of the
\* material the qube was built with.
C15_EndToEnd ==
    C15_Traced => (C15_HitsTopFace /\ result[1] = scene[1].material.color)

\* The geometry of C15 holds, and the colour returned is the colour that
\* next_hit gives the +z face: (1, 0, 1, 1).
C15_FaceColor ==
    C15_Traced => (C15_HitsTopFace /\ result[1] = Color(ColorOne, 0, ColorOne, ColorOne))

(***************************************************************************)
(* Claims about AABB::get_first_hit.                                       *)
(***************************************************************************)

\* The origin of the ray lies outside the box.
OriginOutside(box, ray) == \E i \in Axes : OutsideSlab(box, ray, i)

\* The ray enters the box at the parameter d: the point at d lies in the
\* box and no point at a parameter in [0, d) does.  The parameters of the
\* points in the box form a closed interval that begins at 0 or at a
\* crossing.
EntersAt(box, ray, d) ==
    /\ PointInBox(box, ray, d)
    /\ \A t \in Crossings(box, ray) : (Le(Zero, t) /\ Lt(t, d)) => ~PointInBox(box, ray, t)

\* C16 (first part): get_first_hit returns Some exactly for the rays for
\* which is_hit is true.
C16_SomeIffIsHit == first # <<>> => (first[1] # <<>> <=> IsHit(aabb, firstRay))

\* C16: get_first_hit returns Some(d) exactly for the rays is_hit accepts,
\* with d >= 0, and for an origin outside the box the ray enters the box at d.
C16_FirstHit ==
    first # <<>> =>
        /\ first[1] # <<>> <=> IsHit(aabb, firstRay)
        /\ first[1] # <<>> =>
            /\ Le(Zero, first[1][1])
            /\ OriginOutside(aabb, firstRay) => EntersAt(aabb, firstRay, first[1][1])

\* The distance returned is never negative.
C16_NonNegative == (first # <<>> /\ first[1] # <<>>) => Le(Zero, first[1][1])

\* For a ray along one axis from outside the box, the distance returned is
\* that of the entry.
C16_AxisRay ==
    (/\ first # <<>>
     /\ first[1] # <<>>
     /\ OriginOutside(aabb, firstRay)
     /\ Cardinality({i \in Axes : firstRay.dir[i] # 0}) = 1) =>
        EntersAt(aabb, firstRay, first[1][1])

(***************************************************************************)
(* Claims about the working data of the qube and the camera.               *)
(***************************************************************************)

\* The working data init would compute for the object as it is now.
FreshData(self) ==
    IF IsQube(self) THEN QubeWorkingData(self) ELSE CameraWorkingData(self)

\* C17: the working data is absent whenever a setter was called after the
\* last init, and a query that returns answers from working data computed
\* for the position and rotation the object has.
C17_SettersInvalidate ==
    /\ (dirty /\ qube # <<>>) => qube.data = <<>>
    /\ (dirty /\ camera # <<>>) => camera.data = <<>>
    /\ (query # <<>> /\ query.self.data # <<>>) => query.self.data[1] = FreshData(query.self)

\* The camera half of C17: its setters drop the working data.
C17_CameraInvalidates ==
    /\ (dirty /\ camera # <<>>) => camera.data = <<>>
    /\ (query # <<>> /\ query.op \in {"make_ray", "get_direction"} /\ query.self.data # <<>>) =>
        query.self.data[1] = FreshData(query.self)

\* get_aabb has answered with the box of a position the qube has left.
C17_StaleAabb ==
    /\ query # <<>>
    /\ query.op = "get_aabb"
    /\ ~query.panic
    /\ query.out[1] # GenAabb(query.self.center, query.self.size)

\* The eight corners center +- (size[0]/2) vec1 +- (size[1]/2) vec2
\* +- (size[2]/2) vec3 of the rotated box.
Corners(q) ==
    LET rot == RotateXyz(q.rotation)
        vec == [i \in Axes |-> RowMat3Transform(rot, [j \in Axes |-> IF i = j THEN 1 ELSE 0])]
    IN {[j \in Axes |-> q.center[j] + s[1] * (q.size[1] \div 2) * vec[1][j]
                                    + s[2] * (q.size[2] \div 2) * vec[2][j]
                                    + s[3] * (q.size[3] \div 2) * vec[3][j]] :
            s \in [Axes -> {-1, 1}]}

\* A ray of real direction with its direction as integers.
IntRay(ray) == [pos |-> ray.pos, dir |-> [i \in Axes |-> ray.dir[i][1]]]

\* C18 (corners): the box of a qube whose init ran after its last setter
\* holds the eight corners of the rotated box.
C18_CornersInside ==
    (qube # <<>> /\ qube.data # <<>> /\ ~dirty) =>
        \A p \in Corners(qube) : Contains(qube.data[1].aabb, p)

\* C18 (rays): the box of such a qube accepts every ray for which next_hit
\* returns a hit.
C18_NoHitSkipped ==
    (/\ NextHitReturned
     /\ RealRay
     /\ query.self.data[1] = FreshData(query.self)
     /\ query.out[1] # <<>>) =>
        IsHit(query.self.data[1].aabb, IntRay(query.ray))

\* C18: the bounding box init builds encloses the rotated qube, and is_hit
\* on it rejects no ray that next_hit answers with a hit.
C18_BoxEncloses == C18_CornersInside /\ C18_NoHitSkipped

\* Without rotation the box holds the corners.
C18_Unrotated ==
    (qube # <<>> /\ qube.data # <<>> /\ ~dirty /\ qube.rotation = <<0, 0, 0>>) =>
        \A p \in Corners(qube) : Contains(qube.data[1].aabb, p)

\* compute_color_for_ray has returned the background for a ray that hits
\* the qube of the scene: the object was skipped for its box.
C18_HitLost ==
    /\ result = <<BackgroundColor>>
    /\ Len(scene) = 1
    /\ scene[1].data[1] = QubeWorkingData(scene[1])
    /\ QubeNextHit(scene[1], RatRay(calls[1].ray)) # <<>>

====
